---- MODULE Spec2Model ----
(***************************************************************************)
(* Bug Bounty Platform API: the three routers (auth, programs, reports),   *)
(* their middleware (authenticate, authorizeRole, the rate limiters) and   *)
(* their handlers, over a store of users, programs and reports.            *)
(*                                                                         *)
(* A request is one atomic step: the whole middleware chain of its route   *)
(* followed by the handler, as Express runs it.  The result of a request   *)
(* (its response and the store it leaves) is an operator of the route, of  *)
(* the request and of the current state; the action of the route applies   *)
(* it to the store for every request a client can make.  JS values of      *)
(* bodies are written as strings: "undefined" is an absent field, "0" the  *)
(* number 0; an id parameter is a number, 0 standing for an absent id.     *)
(***************************************************************************)
EXTENDS Integers, FiniteSets, Sequences, TLC

VARIABLES users, programs, reports, nextUser, nextProgram, nextReport,
          now, tokens,
          authHits, authInflight, authFailed, authStale, authAdmittedFailed,
          programHits, programPosts, reportPosts,
          pending

\* The rate limiters, for one client IP: the hit counter of authLimiter, the
\* /auth requests it let through that are not answered yet and the number
\* of them answered with a failure in the window; the hit counter of
\* programLimiter and the number of POST /programs in its window; the number
\* of POST /reports in the window of reportLimiter.  authStale holds the
\* requests in flight that authLimiter let through in an earlier window,
\* authAdmittedFailed counts the requests it let through in this window that
\* were answered with a failure.
limiterVars == <<authHits, authInflight, authFailed, authStale, authAdmittedFailed,
                 programHits, programPosts, reportPosts>>

vars == <<users, programs, reports, nextUser, nextProgram, nextReport,
          now, tokens, limiterVars, pending>>

(***************************************************************************)
(* Bounds of the model.                                                    *)
(***************************************************************************)
MaxUsers == 4
MaxPrograms == 2
MaxReports == 2
MaxTokens == 1
MaxRemovals == 1
MaxNow == 3600
TickStep == 3600
MaxInflight == 2
MaxExtra == 1

(***************************************************************************)
(* Program constants and enumerations.                                     *)
(***************************************************************************)
JWT_EXPIRATION == 3600

\* max of authLimiter, programLimiter and reportLimiter.
AuthMax == 5
ProgramMax == 5
ReportMax == 10

Role == {"RESEARCHER", "COMPANY", "ADMIN"}
Severity == {"LOW", "MEDIUM", "HIGH", "CRITICAL"}
Status == {"OPEN", "IN_REVIEW", "RESOLVED", "REJECTED"}

UNAUTHORIZED == 401
FORBIDDEN == 403
NOT_FOUND == 404
BAD_REQUEST == 400
CONFLICT == 409
TOO_MANY_REQUESTS == 429
INTERNAL_SERVER_ERROR == 500
OK == 200
CREATED == 201
NO_CONTENT == 204

(***************************************************************************)
(* JS truthiness of a body field.                                          *)
(***************************************************************************)
Falsy == {"undefined", "", "0"}
Truthy(v) == v \notin Falsy

(***************************************************************************)
(* Request inputs.                                                         *)
(***************************************************************************)
\* The address a new client registers with: addresses are interchangeable,
\* so the n-th registration that can succeed uses the n-th one.
EmailList == <<"a@x", "b@x", "c@x", "d@x", "e@x", "f@x", "g@x", "h@x">>
FreshEmail == EmailList[nextUser]
Emails == {FreshEmail} \cup {u.email : u \in users}
Passwords == {"testtest", "pw2"}
RegisterPasswords == {"testtest"}
RoleInputs == Role \cup {"undefined", "BOGUS"}

UserIds == 1..(MaxUsers + 1)
ProgramIds == 1..(MaxPrograms + 1)
ReportIds == 1..(MaxReports + 1)

(***************************************************************************)
(* Tokens.  sig names the key a token is signed with: "JWT_SECRET" for the *)
(* server's, anything else for a key the server does not hold.             *)
(***************************************************************************)
NoToken == [id |-> 0, email |-> "", iat |-> 0, exp |-> 0, sig |-> ""]

generateToken(user) ==
    [id |-> user.id, email |-> user.email, iat |-> now,
     exp |-> now + JWT_EXPIRATION, sig |-> "JWT_SECRET"]

\* jwt.verify rejecting a token only once the clock has passed exp.
verifyTokenLateExpiry(token) ==
    IF token.sig = "JWT_SECRET" /\ now <= token.exp
    THEN {[id |-> token.id, email |-> token.email]}
    ELSE {}

\* jwt.verify: the payload, or nothing when it throws (bad signature, or the
\* clock has reached exp).
verifyToken(token) ==
    IF token.sig = "JWT_SECRET" /\ now < token.exp
    THEN {[id |-> token.id, email |-> token.email]}
    ELSE {}

\* A held token with its expiry pushed back, signed again with another key.
Forged ==
    {[t EXCEPT !.exp = now + JWT_EXPIRATION, !.sig = "attacker"] : t \in tokens}

\* The Authorization headers a client can send: none, a scheme without a
\* token, or a scheme followed by a token it holds or has made up.
Headers ==
    {<< >>, <<"Bearer">>} \cup {<<"Bearer", t>> : t \in tokens \cup Forged}

\* req.headers.authorization?.split(' ')[1]
ExtractToken(header) == IF Len(header) >= 2 THEN header[2] ELSE NoToken

(***************************************************************************)
(* Responses.  A result carries the response and the store it leaves.      *)
(***************************************************************************)
Res(status, error) ==
    [status |-> status, error |-> error, body |-> {}, token |-> NoToken,
     users |-> users, programs |-> programs, reports |-> reports]

Gate(next, user, status, error) ==
    [next |-> next, user |-> user, status |-> status, error |-> error]

The(S) == CHOOSE x \in S : TRUE

(***************************************************************************)
(* Middleware.                                                             *)
(***************************************************************************)
\* A gate that lets the request through with req.user = user (a set holding
\* the attached actor, empty when none is attached).
Pass(user) == Gate(TRUE, user, 0, "")
Deny(status, error) == Gate(FALSE, {}, status, error)

\* authenticate reading the payload with jwt.decode: nothing is verified.
authenticateDecodeOnly(header) ==
    LET token == ExtractToken(header) IN
    IF token = NoToken
    THEN Deny(UNAUTHORIZED, "No token provided, authorization denied")
    ELSE LET user == {u \in users : u.id = token.id} IN
         IF user = {}
         THEN Deny(UNAUTHORIZED, "User not found")
         ELSE Pass(user)

\* authenticate attaching the token's payload when the store has no such user.
authenticateTrustPayload(header) ==
    LET token == ExtractToken(header) IN
    IF token = NoToken
    THEN Deny(UNAUTHORIZED, "No token provided, authorization denied")
    ELSE LET decoded == verifyToken(token) IN
         IF decoded = {}
         THEN Deny(UNAUTHORIZED, "Invalid token")
         ELSE LET user == {u \in users : u.id = The(decoded).id} IN
              IF user = {}
              THEN Pass({[id |-> The(decoded).id, name |-> "",
                          email |-> The(decoded).email,
                          passwordHash |-> << >>, role |-> "RESEARCHER"]})
              ELSE Pass(user)

authenticate(header) ==
    LET token == ExtractToken(header) IN
    IF token = NoToken
    THEN Deny(UNAUTHORIZED, "No token provided, authorization denied")
    ELSE LET decoded == verifyToken(token) IN
         IF decoded = {}
         THEN Deny(UNAUTHORIZED, "Invalid token")
         ELSE LET user == {u \in users : u.id = The(decoded).id} IN
              IF user = {}
              THEN Deny(UNAUTHORIZED, "User not found")
              ELSE Pass(user)

\* authorizeRole that lets every attached actor through.
authorizeRoleAnyRole(allowedRoles, reqUser) ==
    IF reqUser = {}
    THEN Deny(FORBIDDEN, "You do not have permission to perform this action")
    ELSE Pass(reqUser)

\* authorizeRole with ADMIN let through every role gate.
authorizeRoleAdminAllowed(allowedRoles, reqUser) ==
    IF reqUser = {} \/ The(reqUser).role \notin allowedRoles \cup {"ADMIN"}
    THEN Deny(FORBIDDEN, "You do not have permission to perform this action")
    ELSE Pass(reqUser)

authorizeRole(allowedRoles, reqUser) ==
    IF reqUser = {} \/ The(reqUser).role \notin allowedRoles
    THEN Deny(FORBIDDEN, "You do not have permission to perform this action")
    ELSE Pass(reqUser)

\* express-rate-limit in front of a route.  The window counters are not part
\* of this specification: whether the limiter has run out for the client is
\* an input of the request.
authLimiter(exhausted) ==
    IF exhausted
    THEN Deny(TOO_MANY_REQUESTS,
              "Too many authentication attempts from this IP, please try again later.")
    ELSE Pass({})

programLimiter(exhausted) ==
    IF exhausted
    THEN Deny(TOO_MANY_REQUESTS,
              "Too many programs created from this IP, please try again tomorrow.")
    ELSE Pass({})

Refuse(gate) == Res(gate.status, gate.error)

(***************************************************************************)
(* Password hashing (bcrypt).                                              *)
(***************************************************************************)
hashPassword(password) == <<"$2b$", password>>
comparePasswords(password, hash) == hash = <<"$2b$", password>>

(***************************************************************************)
(* authController                                                          *)
(***************************************************************************)
WithoutPassword(user) ==
    [id |-> user.id, name |-> user.name, email |-> user.email, role |-> user.role]

\* register creating the user without the unique index on email.
registerNoUniqueEmail(body) ==
    IF ~Truthy(body.name) \/ ~Truthy(body.email) \/ ~Truthy(body.password)
    THEN Res(BAD_REQUEST, "All fields are required")
    ELSE IF body.role \notin Role \cup {"undefined"}
    THEN Res(INTERNAL_SERVER_ERROR, "Something went wrong")
    ELSE LET user == [id |-> nextUser, name |-> body.name, email |-> body.email,
                      passwordHash |-> hashPassword(body.password),
                      role |-> IF body.role = "undefined" THEN "RESEARCHER"
                               ELSE body.role]
         IN [Res(CREATED, "") EXCEPT !.users = users \cup {user},
                                     !.token = generateToken(user),
                                     !.body = {WithoutPassword(user)}]

register(body) ==
    IF ~Truthy(body.name) \/ ~Truthy(body.email) \/ ~Truthy(body.password)
    THEN Res(BAD_REQUEST, "All fields are required")
    ELSE IF body.role \notin Role \cup {"undefined"}
    THEN Res(INTERNAL_SERVER_ERROR, "Something went wrong")
    ELSE IF \E u \in users : u.email = body.email
    THEN Res(CONFLICT, "A user with this email already exists")
    ELSE LET user == [id |-> nextUser, name |-> body.name, email |-> body.email,
                      passwordHash |-> hashPassword(body.password),
                      role |-> IF body.role = "undefined" THEN "RESEARCHER"
                               ELSE body.role]
         IN [Res(CREATED, "") EXCEPT !.users = users \cup {user},
                                     !.token = generateToken(user),
                                     !.body = {WithoutPassword(user)}]

\* login comparing the password with the stored hash as plain strings.
loginPlainComparison(body) ==
    IF ~Truthy(body.email) \/ ~Truthy(body.password)
    THEN Res(BAD_REQUEST, "All fields are required")
    ELSE LET user == {u \in users : u.email = body.email} IN
         IF user = {} \/ <<body.password>> # The(user).passwordHash
         THEN Res(UNAUTHORIZED, "Invalid email or password")
         ELSE [Res(OK, "") EXCEPT !.token = generateToken(The(user)),
                                  !.body = {WithoutPassword(The(user))}]

\* login telling an unknown email from a wrong password.
loginUserNotFound(body) ==
    IF ~Truthy(body.email) \/ ~Truthy(body.password)
    THEN Res(BAD_REQUEST, "All fields are required")
    ELSE LET user == {u \in users : u.email = body.email} IN
         IF user = {}
         THEN Res(NOT_FOUND, "User not found")
         ELSE IF ~comparePasswords(body.password, The(user).passwordHash)
         THEN Res(UNAUTHORIZED, "Invalid email or password")
         ELSE [Res(OK, "") EXCEPT !.token = generateToken(The(user)),
                                  !.body = {WithoutPassword(The(user))}]

login(body) ==
    IF ~Truthy(body.email) \/ ~Truthy(body.password)
    THEN Res(BAD_REQUEST, "All fields are required")
    ELSE LET user == {u \in users : u.email = body.email} IN
         IF user = {} \/ ~comparePasswords(body.password, The(user).passwordHash)
         THEN Res(UNAUTHORIZED, "Invalid email or password")
         ELSE [Res(OK, "") EXCEPT !.token = generateToken(The(user)),
                                  !.body = {WithoutPassword(The(user))}]

\* me answering with req.user as authenticate attached it.
meWholeUser(reqUser) == [Res(OK, "") EXCEPT !.body = reqUser]

me(reqUser) == [Res(OK, "") EXCEPT !.body = {WithoutPassword(The(reqUser))}]

(***************************************************************************)
(* programController                                                       *)
(***************************************************************************)
\* createProgram taking companyId from the body when the body carries one.
createProgramTrustBody(reqUser, body) ==
    IF ~Truthy(body.name) \/ ~Truthy(body.description) \/ ~Truthy(body.scope)
       \/ ~Truthy(body.rewardMin) \/ ~Truthy(body.rewardMax)
    THEN Res(BAD_REQUEST, "All fields are required")
    ELSE LET program == [id |-> nextProgram, name |-> body.name,
                         description |-> body.description, scope |-> body.scope,
                         rewardMin |-> body.rewardMin, rewardMax |-> body.rewardMax,
                         companyId |-> IF body.companyId # 0 THEN body.companyId
                                       ELSE The(reqUser).id]
         IN [Res(CREATED, "") EXCEPT !.programs = programs \cup {program},
                                     !.body = {program}]

createProgram(reqUser, body) ==
    IF ~Truthy(body.name) \/ ~Truthy(body.description) \/ ~Truthy(body.scope)
       \/ ~Truthy(body.rewardMin) \/ ~Truthy(body.rewardMax)
    THEN Res(BAD_REQUEST, "All fields are required")
    ELSE LET program == [id |-> nextProgram, name |-> body.name,
                         description |-> body.description, scope |-> body.scope,
                         rewardMin |-> body.rewardMin, rewardMax |-> body.rewardMax,
                         companyId |-> The(reqUser).id]
         IN [Res(CREATED, "") EXCEPT !.programs = programs \cup {program},
                                     !.body = {program}]

getPrograms == [Res(OK, "") EXCEPT !.body = programs]

getProgramById(id) ==
    LET program == {p \in programs : p.id = id} IN
    IF program = {}
    THEN Res(NOT_FOUND, "Program not found")
    ELSE [Res(OK, "") EXCEPT !.body = program]

\* prisma update: a field given as undefined is left as it is.
Patched(old, new) == IF new = "undefined" THEN old ELSE new

\* updateProgram passing the whole body, companyId included, to the update.
updateProgramReassign(reqUser, id, body) ==
    LET program == {p \in programs : p.id = id} IN
    IF program = {}
    THEN Res(NOT_FOUND, "Program not found")
    ELSE IF The(program).companyId # The(reqUser).id
    THEN Res(FORBIDDEN, "You are not authorized to update this program")
    ELSE LET old == The(program)
             updatedProgram ==
                 [old EXCEPT !.name = Patched(old.name, body.name),
                             !.companyId = IF body.companyId # 0 THEN body.companyId
                                           ELSE old.companyId]
         IN [Res(OK, "") EXCEPT !.programs = (programs \ program) \cup {updatedProgram},
                                !.body = {updatedProgram}]

\* updateProgram without the comparison of companyId with req.user.id.
updateProgramAnyCompany(reqUser, id, body) ==
    LET program == {p \in programs : p.id = id} IN
    IF program = {}
    THEN Res(NOT_FOUND, "Program not found")
    ELSE LET old == The(program)
             updatedProgram ==
                 [old EXCEPT !.name = Patched(old.name, body.name),
                             !.description = Patched(old.description, body.description),
                             !.scope = Patched(old.scope, body.scope),
                             !.rewardMin = Patched(old.rewardMin, body.rewardMin),
                             !.rewardMax = Patched(old.rewardMax, body.rewardMax)]
         IN [Res(OK, "") EXCEPT !.programs = (programs \ program) \cup {updatedProgram},
                                !.body = {updatedProgram}]

\* updateProgram writing before it compares companyId with req.user.id.
updateProgramWriteFirst(reqUser, id, body) ==
    LET program == {p \in programs : p.id = id} IN
    IF program = {}
    THEN Res(NOT_FOUND, "Program not found")
    ELSE LET old == The(program)
             updatedProgram ==
                 [old EXCEPT !.name = Patched(old.name, body.name),
                             !.description = Patched(old.description, body.description),
                             !.scope = Patched(old.scope, body.scope),
                             !.rewardMin = Patched(old.rewardMin, body.rewardMin),
                             !.rewardMax = Patched(old.rewardMax, body.rewardMax)]
         IN IF old.companyId # The(reqUser).id
            THEN [Res(FORBIDDEN, "You are not authorized to update this program")
                      EXCEPT !.programs = (programs \ program) \cup {updatedProgram}]
            ELSE [Res(OK, "") EXCEPT
                      !.programs = (programs \ program) \cup {updatedProgram},
                      !.body = {updatedProgram}]

updateProgram(reqUser, id, body) ==
    LET program == {p \in programs : p.id = id} IN
    IF program = {}
    THEN Res(NOT_FOUND, "Program not found")
    ELSE IF The(program).companyId # The(reqUser).id
    THEN Res(FORBIDDEN, "You are not authorized to update this program")
    ELSE LET old == The(program)
             updatedProgram ==
                 [old EXCEPT !.name = Patched(old.name, body.name),
                             !.description = Patched(old.description, body.description),
                             !.scope = Patched(old.scope, body.scope),
                             !.rewardMin = Patched(old.rewardMin, body.rewardMin),
                             !.rewardMax = Patched(old.rewardMax, body.rewardMax)]
         IN [Res(OK, "") EXCEPT !.programs = (programs \ program) \cup {updatedProgram},
                                !.body = {updatedProgram}]

\* prisma.program.delete; Report_programId_fkey is ON DELETE CASCADE.
deleteProgram(reqUser, id) ==
    LET program == {p \in programs : p.id = id} IN
    IF program = {}
    THEN Res(NOT_FOUND, "Program not found")
    ELSE IF The(program).companyId # The(reqUser).id
    THEN Res(FORBIDDEN, "You are not authorized to delete this program")
    ELSE [Res(NO_CONTENT, "") EXCEPT !.programs = programs \ program,
                                     !.reports = {r \in reports : r.programId # id}]

(***************************************************************************)
(* reportController                                                        *)
(***************************************************************************)
\* createReport looking the program up before it validates the body.
createReportLookupFirst(reqUser, body) ==
    IF {p \in programs : p.id = body.programId} = {}
    THEN Res(NOT_FOUND, "Program not found")
    ELSE IF body.programId = 0 \/ ~Truthy(body.title) \/ ~Truthy(body.description)
    THEN Res(BAD_REQUEST, "Program ID, title, and description are required")
    ELSE LET report == [id |-> nextReport, title |-> body.title,
                        description |-> body.description,
                        severity |-> "LOW", status |-> "OPEN",
                        programId |-> body.programId,
                        researcherId |-> The(reqUser).id]
         IN [Res(CREATED, "") EXCEPT !.reports = reports \cup {report},
                                     !.body = {report}]

createReport(reqUser, body) ==
    IF body.programId = 0 \/ ~Truthy(body.title) \/ ~Truthy(body.description)
    THEN Res(BAD_REQUEST, "Program ID, title, and description are required")
    ELSE IF {p \in programs : p.id = body.programId} = {}
    THEN Res(NOT_FOUND, "Program not found")
    ELSE LET report == [id |-> nextReport, title |-> body.title,
                        description |-> body.description,
                        severity |-> "LOW", status |-> "OPEN",
                        programId |-> body.programId,
                        researcherId |-> The(reqUser).id]
         IN [Res(CREATED, "") EXCEPT !.reports = reports \cup {report},
                                     !.body = {report}]

\* getReportsForProgram without the researcherId filter.
getReportsForProgramUnfiltered(reqUser, programId) ==
    LET userId == The(reqUser).id
        role == The(reqUser).role
        program == {p \in programs : p.id = programId}
    IN IF program = {}
       THEN Res(NOT_FOUND, "Program not found")
       ELSE IF role = "COMPANY" /\ The(program).companyId # userId
       THEN Res(FORBIDDEN, "You are not authorized to view reports for this program")
       ELSE [Res(OK, "") EXCEPT
                !.body = {r \in reports : r.programId = programId}]

\* getReportsForProgram comparing the owner before looking at what it found.
getReportsForProgramOwnershipFirst(reqUser, programId) ==
    LET userId == The(reqUser).id
        role == The(reqUser).role
        program == {p \in programs : p.id = programId}
    IN IF role = "COMPANY" /\ ~\E p \in program : p.companyId = userId
       THEN Res(FORBIDDEN, "You are not authorized to view reports for this program")
       ELSE IF program = {}
       THEN Res(NOT_FOUND, "Program not found")
       ELSE IF role = "COMPANY"
       THEN [Res(OK, "") EXCEPT
                !.body = {r \in reports : r.programId = programId}]
       ELSE [Res(OK, "") EXCEPT
                !.body = {r \in reports : r.programId = programId
                                          /\ r.researcherId = userId}]

getReportsForProgram(reqUser, programId) ==
    LET userId == The(reqUser).id
        role == The(reqUser).role
        program == {p \in programs : p.id = programId}
    IN IF program = {}
       THEN Res(NOT_FOUND, "Program not found")
       ELSE IF role = "COMPANY"
       THEN IF The(program).companyId # userId
            THEN Res(FORBIDDEN, "You are not authorized to view reports for this program")
            ELSE [Res(OK, "") EXCEPT
                     !.body = {r \in reports : r.programId = programId}]
       ELSE [Res(OK, "") EXCEPT
                !.body = {r \in reports : r.programId = programId
                                          /\ r.researcherId = userId}]

\* include: { program: true }
ProgramOf(report) == The({p \in programs : p.id = report.programId})

\* getReportById letting every researcher read every report.
getReportByIdAnyResearcher(reqUser, id) ==
    LET userId == The(reqUser).id
        role == The(reqUser).role
        report == {r \in reports : r.id = id}
    IN IF report = {}
       THEN Res(NOT_FOUND, "Report not found")
       ELSE LET isOwnerCompany ==
                    role = "COMPANY" /\ ProgramOf(The(report)).companyId = userId
                isSubmittingResearcher == role = "RESEARCHER"
            IN IF ~isOwnerCompany /\ ~isSubmittingResearcher
               THEN Res(FORBIDDEN, "You are not authorized to view this report")
               ELSE [Res(OK, "") EXCEPT !.body = report]

getReportById(reqUser, id) ==
    LET userId == The(reqUser).id
        role == The(reqUser).role
        report == {r \in reports : r.id = id}
    IN IF report = {}
       THEN Res(NOT_FOUND, "Report not found")
       ELSE LET isOwnerCompany ==
                    role = "COMPANY" /\ ProgramOf(The(report)).companyId = userId
                isSubmittingResearcher ==
                    role = "RESEARCHER" /\ The(report).researcherId = userId
            IN IF ~isOwnerCompany /\ ~isSubmittingResearcher
               THEN Res(FORBIDDEN, "You are not authorized to view this report")
               ELSE [Res(OK, "") EXCEPT !.body = report]

\* updateReportStatus without the comparison of the program's companyId.
updateReportStatusAnyCompany(reqUser, id, body) ==
    LET report == {r \in reports : r.id = id}
    IN IF ~Truthy(body.status) /\ ~Truthy(body.severity)
       THEN Res(BAD_REQUEST, "Status or severity must be provided")
       ELSE IF report = {}
       THEN Res(NOT_FOUND, "Report not found")
       ELSE IF (Truthy(body.status) /\ body.status \notin Status)
               \/ (Truthy(body.severity) /\ body.severity \notin Severity)
       THEN Res(INTERNAL_SERVER_ERROR, "Failed to update report")
       ELSE LET old == The(report)
                updatedReport ==
                    [old EXCEPT
                        !.status = IF Truthy(body.status) THEN body.status ELSE old.status,
                        !.severity = IF Truthy(body.severity) THEN body.severity
                                     ELSE old.severity]
            IN [Res(OK, "") EXCEPT !.reports = (reports \ report) \cup {updatedReport},
                                   !.body = {updatedReport}]

\* updateReportStatus with a lifecycle: a RESOLVED or REJECTED report is closed.
updateReportStatusNoReopen(reqUser, id, body) ==
    LET userId == The(reqUser).id
        report == {r \in reports : r.id = id}
    IN IF ~Truthy(body.status) /\ ~Truthy(body.severity)
       THEN Res(BAD_REQUEST, "Status or severity must be provided")
       ELSE IF report = {}
       THEN Res(NOT_FOUND, "Report not found")
       ELSE IF ProgramOf(The(report)).companyId # userId
       THEN Res(FORBIDDEN, "You are not authorized to update this report")
       ELSE IF The(report).status \in {"RESOLVED", "REJECTED"}
       THEN Res(BAD_REQUEST, "Report is closed")
       ELSE IF (Truthy(body.status) /\ body.status \notin Status)
               \/ (Truthy(body.severity) /\ body.severity \notin Severity)
       THEN Res(INTERNAL_SERVER_ERROR, "Failed to update report")
       ELSE LET old == The(report)
                updatedReport ==
                    [old EXCEPT
                        !.status = IF Truthy(body.status) THEN body.status ELSE old.status,
                        !.severity = IF Truthy(body.severity) THEN body.severity
                                     ELSE old.severity]
            IN [Res(OK, "") EXCEPT !.reports = (reports \ report) \cup {updatedReport},
                                   !.body = {updatedReport}]

\* updateReportStatus writing both columns: an omitted one gets its default.
updateReportStatusResetOmitted(reqUser, id, body) ==
    LET userId == The(reqUser).id
        report == {r \in reports : r.id = id}
    IN IF ~Truthy(body.status) /\ ~Truthy(body.severity)
       THEN Res(BAD_REQUEST, "Status or severity must be provided")
       ELSE IF report = {}
       THEN Res(NOT_FOUND, "Report not found")
       ELSE IF ProgramOf(The(report)).companyId # userId
       THEN Res(FORBIDDEN, "You are not authorized to update this report")
       ELSE IF (Truthy(body.status) /\ body.status \notin Status)
               \/ (Truthy(body.severity) /\ body.severity \notin Severity)
       THEN Res(INTERNAL_SERVER_ERROR, "Failed to update report")
       ELSE LET old == The(report)
                updatedReport ==
                    [old EXCEPT
                        !.status = IF Truthy(body.status) THEN body.status ELSE "OPEN",
                        !.severity = IF Truthy(body.severity) THEN body.severity
                                     ELSE "LOW"]
            IN [Res(OK, "") EXCEPT !.reports = (reports \ report) \cup {updatedReport},
                                   !.body = {updatedReport}]

updateReportStatus(reqUser, id, body) ==
    LET userId == The(reqUser).id
        report == {r \in reports : r.id = id}
    IN IF ~Truthy(body.status) /\ ~Truthy(body.severity)
       THEN Res(BAD_REQUEST, "Status or severity must be provided")
       ELSE IF report = {}
       THEN Res(NOT_FOUND, "Report not found")
       ELSE IF ProgramOf(The(report)).companyId # userId
       THEN Res(FORBIDDEN, "You are not authorized to update this report")
       ELSE IF (Truthy(body.status) /\ body.status \notin Status)
               \/ (Truthy(body.severity) /\ body.severity \notin Severity)
       THEN Res(INTERNAL_SERVER_ERROR, "Failed to update report")
       ELSE LET old == The(report)
                updatedReport ==
                    [old EXCEPT
                        !.status = IF Truthy(body.status) THEN body.status ELSE old.status,
                        !.severity = IF Truthy(body.severity) THEN body.severity
                                     ELSE old.severity]
            IN [Res(OK, "") EXCEPT !.reports = (reports \ report) \cup {updatedReport},
                                   !.body = {updatedReport}]

(***************************************************************************)
(* Routes: the middleware chain of each route, then its handler.           *)
(***************************************************************************)
\* authenticate, then authorizeRole(allowedRoles) when the route has a role
\* gate: the gate the handler of the route stands behind.
Protected(header, allowedRoles, gated) ==
    LET a == authenticate(header) IN
    IF ~a.next \/ ~gated THEN a ELSE authorizeRole(allowedRoles, a.user)

RouteRegister(exhausted, body) ==
    LET l == authLimiter(exhausted) IN
    IF ~l.next THEN Refuse(l) ELSE register(body)

RouteLogin(exhausted, body) ==
    LET l == authLimiter(exhausted) IN
    IF ~l.next THEN Refuse(l) ELSE login(body)

RouteMe(header) ==
    LET g == Protected(header, Role, FALSE) IN
    IF ~g.next THEN Refuse(g) ELSE me(g.user)

RouteGetPrograms == getPrograms

RouteGetProgramById(id) == getProgramById(id)

RoutePostProgram(exhausted, header, body) ==
    LET l == programLimiter(exhausted)
        g == Protected(header, {"COMPANY"}, TRUE)
    IN IF ~l.next THEN Refuse(l)
       ELSE IF ~g.next THEN Refuse(g)
       ELSE createProgram(g.user, body)

RoutePutProgram(header, id, body) ==
    LET g == Protected(header, {"COMPANY"}, TRUE) IN
    IF ~g.next THEN Refuse(g) ELSE updateProgram(g.user, id, body)

RouteDeleteProgram(header, id) ==
    LET g == Protected(header, {"COMPANY"}, TRUE) IN
    IF ~g.next THEN Refuse(g) ELSE deleteProgram(g.user, id)

RoutePostReport(header, body) ==
    LET g == Protected(header, {"RESEARCHER"}, TRUE) IN
    IF ~g.next THEN Refuse(g) ELSE createReport(g.user, body)

\* GET /program/:programId behind the allow-list of PATCH /:id/status.
RouteGetReportsForProgramCompanyOnly(header, programId) ==
    LET g == Protected(header, {"COMPANY"}, TRUE) IN
    IF ~g.next THEN Refuse(g) ELSE getReportsForProgram(g.user, programId)

RouteGetReportsForProgram(header, programId) ==
    LET g == Protected(header, {"COMPANY", "RESEARCHER"}, TRUE) IN
    IF ~g.next THEN Refuse(g) ELSE getReportsForProgram(g.user, programId)

RouteGetReportById(header, id) ==
    LET g == Protected(header, {"COMPANY", "RESEARCHER"}, TRUE) IN
    IF ~g.next THEN Refuse(g) ELSE getReportById(g.user, id)

RoutePatchReportStatus(header, id, body) ==
    LET g == Protected(header, {"COMPANY"}, TRUE) IN
    IF ~g.next THEN Refuse(g) ELSE updateReportStatus(g.user, id, body)

(***************************************************************************)
(* Request bodies.                                                         *)
(***************************************************************************)
RegisterBody(name, email, password, role) ==
    [name |-> name, email |-> email, password |-> password, role |-> role]

RegisterBodies ==
    {RegisterBody("N", FreshEmail, p, r) : p \in RegisterPasswords, r \in RoleInputs}
    \cup {RegisterBody("N", u.email, "testtest", r) :
              u \in users, r \in {"COMPANY", "BOGUS"}}
    \cup {RegisterBody("undefined", FreshEmail, "testtest", "COMPANY"),
          RegisterBody("N", "undefined", "testtest", "COMPANY"),
          RegisterBody("N", FreshEmail, "undefined", "COMPANY")}

LoginBodies ==
    [email : {u.email : u \in users}, password : Passwords]
    \cup {[email |-> FreshEmail, password |-> "testtest"],
          [email |-> "undefined", password |-> "testtest"],
          [email |-> FreshEmail, password |-> "undefined"]}

FullProgram(name) ==
    [name |-> name, description |-> "D", scope |-> "S", rewardMin |-> "100",
     rewardMax |-> "1000", companyId |-> 0]

EmptyProgram ==
    [name |-> "undefined", description |-> "undefined", scope |-> "undefined",
     rewardMin |-> "undefined", rewardMax |-> "undefined", companyId |-> 0]

CreateProgramBodies ==
    {FullProgram("A"), EmptyProgram,
     [FullProgram("A") EXCEPT !.name = "undefined"],
     [FullProgram("A") EXCEPT !.rewardMin = "0"],
     [FullProgram("A") EXCEPT !.rewardMax = "undefined"]}
    \cup {[FullProgram("A") EXCEPT !.companyId = c] : c \in {1, 2}}

UpdateProgramBodies ==
    {EmptyProgram, [EmptyProgram EXCEPT !.name = "A"]}
    \cup {[EmptyProgram EXCEPT !.name = "A", !.companyId = c] : c \in {1, 2}}

ReportBodies ==
    {[programId |-> p, title |-> "T", description |-> "D"] : p \in 0..(MaxPrograms + 1)}
    \cup {[programId |-> 1, title |-> "undefined", description |-> "D"],
          [programId |-> 1, title |-> "T", description |-> "undefined"]}

StatusBody(status, severity) == [status |-> status, severity |-> severity]
StatusBodies ==
    {StatusBody("undefined", "undefined"), StatusBody("IN_REVIEW", "undefined"),
     StatusBody("undefined", "CRITICAL"), StatusBody("BOGUS", "undefined"),
     StatusBody("IN_REVIEW", "BOGUS")}

(***************************************************************************)
(* State.                                                                  *)
(***************************************************************************)
\* The database after the migration and the seed script.
SeedUser(id, name, email, role) ==
    [id |-> id, name |-> name, email |-> email,
     passwordHash |-> hashPassword("testtest"), role |-> role]

SeedUsers ==
    {SeedUser(1, "Admin User", "admin@example.com", "ADMIN"),
     SeedUser(2, "Company User", "company@example.com", "COMPANY"),
     SeedUser(3, "Researcher User", "researcher@example.com", "RESEARCHER")}

SeedPrograms ==
    {[id |-> 1, name |-> "Sample Bug Bounty Program",
      description |-> "Find and report bugs in our system.",
      scope |-> "api.example.com", rewardMin |-> "100", rewardMax |-> "1000",
      companyId |-> 2]}

SeedReports ==
    {[id |-> 1, title |-> "Sample Bug Report",
      description |-> "This is a sample bug report.",
      severity |-> "HIGH", status |-> "OPEN", programId |-> 1, researcherId |-> 3]}

Init ==
    /\ users = SeedUsers
    /\ programs = SeedPrograms
    /\ reports = SeedReports
    /\ nextUser = 4
    /\ nextProgram = 2
    /\ nextReport = 2
    /\ now = 0
    /\ tokens = {}
    /\ authHits = 0
    /\ authInflight = {}
    /\ authFailed = 0
    /\ authStale = {}
    /\ authAdmittedFailed = 0
    /\ programHits = 0
    /\ programPosts = 0
    /\ reportPosts = 0
    /\ pending = {}

\* The id of the actor authenticate attaches for this header, 0 when it
\* attaches none.
ActorId(header) ==
    LET a == authenticate(header) IN IF a.next THEN The(a.user).id ELSE 0

\* The store after a request with result r.
Answer(r) ==
    /\ users' = r.users
    /\ programs' = r.programs
    /\ reports' = r.reports

\* The clients hold at most MaxTokens tokens: of those they held and the one
\* a 201/200 answer carries, they keep any MaxTokens.
Issue(r) ==
    IF r.token = NoToken
    THEN tokens' = tokens
    ELSE \E kept \in SUBSET (tokens \cup {r.token}) :
             /\ Cardinality(kept) <= MaxTokens
             /\ tokens' = kept

(***************************************************************************)
(* Requests.                                                               *)
(***************************************************************************)
PostRegister ==
    \E exhausted \in BOOLEAN :
    \E body \in IF exhausted THEN {RegisterBody("N", FreshEmail, "testtest", "COMPANY")}
                 ELSE RegisterBodies :
        LET r == RouteRegister(exhausted, body) IN
        /\ r.status = CREATED => nextUser <= MaxUsers
        /\ Answer(r)
        /\ Issue(r)
        /\ nextUser' = IF r.status = CREATED THEN nextUser + 1 ELSE nextUser
        /\ UNCHANGED <<limiterVars, pending, nextProgram, nextReport, now>>

PostLogin ==
    \E exhausted \in BOOLEAN :
    \E body \in IF exhausted THEN {[email |-> FreshEmail, password |-> "testtest"]}
                 ELSE LoginBodies :
        LET r == RouteLogin(exhausted, body) IN
        /\ Answer(r)
        /\ Issue(r)
        /\ UNCHANGED <<limiterVars, pending, nextUser, nextProgram, nextReport, now>>

GetMe ==
    \E header \in Headers :
        /\ Answer(RouteMe(header))
        /\ UNCHANGED <<limiterVars, pending, nextUser, nextProgram, nextReport, now, tokens>>

GetPrograms ==
    /\ Answer(RouteGetPrograms)
    /\ UNCHANGED <<limiterVars, pending, nextUser, nextProgram, nextReport, now, tokens>>

GetProgramById ==
    \E id \in ProgramIds :
        /\ Answer(RouteGetProgramById(id))
        /\ UNCHANGED <<limiterVars, pending, nextUser, nextProgram, nextReport, now, tokens>>

PostProgram ==
    \E exhausted \in BOOLEAN :
    \E header \in IF exhausted THEN {<< >>} ELSE Headers :
    \E body \in IF exhausted THEN {FullProgram("A")} ELSE CreateProgramBodies :
        LET r == RoutePostProgram(exhausted, header, body) IN
        /\ r.status = CREATED => nextProgram <= MaxPrograms
        /\ Answer(r)
        /\ nextProgram' = IF r.status = CREATED THEN nextProgram + 1 ELSE nextProgram
        /\ UNCHANGED <<limiterVars, pending, nextUser, nextReport, now, tokens>>

PutProgram ==
    \E header \in Headers, id \in ProgramIds, body \in UpdateProgramBodies :
        /\ Answer(RoutePutProgram(header, id, body))
        /\ UNCHANGED <<limiterVars, pending, nextUser, nextProgram, nextReport, now, tokens>>

DeleteProgram ==
    \E header \in Headers, id \in ProgramIds :
        /\ Answer(RouteDeleteProgram(header, id))
        /\ UNCHANGED <<limiterVars, pending, nextUser, nextProgram, nextReport, now, tokens>>

PostReport ==
    \E header \in Headers, body \in ReportBodies :
        LET r == RoutePostReport(header, body) IN
        /\ r.status = CREATED => nextReport <= MaxReports
        /\ Answer(r)
        /\ nextReport' = IF r.status = CREATED THEN nextReport + 1 ELSE nextReport
        /\ UNCHANGED <<limiterVars, pending, nextUser, nextProgram, now, tokens>>

GetReportsForProgram ==
    \E header \in Headers, programId \in ProgramIds :
        /\ Answer(RouteGetReportsForProgram(header, programId))
        /\ UNCHANGED <<limiterVars, pending, nextUser, nextProgram, nextReport, now, tokens>>

GetReportById ==
    \E header \in Headers, id \in ReportIds :
        /\ Answer(RouteGetReportById(header, id))
        /\ UNCHANGED <<limiterVars, pending, nextUser, nextProgram, nextReport, now, tokens>>

PatchReportStatus ==
    \E header \in Headers, id \in ReportIds, body \in StatusBodies :
        /\ Answer(RoutePatchReportStatus(header, id, body))
        /\ UNCHANGED <<limiterVars, pending, nextUser, nextProgram, nextReport, now, tokens>>

(***************************************************************************)
(* The environment: the clock, and an operator of the database removing a  *)
(* user (prisma.user.deleteMany of the seed script).  Program_companyId_   *)
(* fkey is ON DELETE RESTRICT, Report_researcherId_fkey ON DELETE CASCADE. *)
(***************************************************************************)
Tick ==
    /\ now + TickStep <= MaxNow
    /\ now' = now + TickStep
    /\ UNCHANGED <<limiterVars, pending, users, programs, reports, nextUser, nextProgram, nextReport,
                   tokens>>

RemoveUser ==
    \E u \in users :
        /\ (nextUser - 1) - Cardinality(users) < MaxRemovals
        /\ ~\E p \in programs : p.companyId = u.id
        /\ users' = users \ {u}
        /\ reports' = {r \in reports : r.researcherId # u.id}
        /\ UNCHANGED <<limiterVars, pending, programs, nextUser, nextProgram, nextReport, now, tokens>>

Next ==
    \/ PostRegister
    \/ PostLogin
    \/ GetMe
    \/ GetPrograms
    \/ GetProgramById
    \/ PostProgram
    \/ PutProgram
    \/ DeleteProgram
    \/ PostReport
    \/ GetReportsForProgram
    \/ GetReportById
    \/ PatchReportStatus
    \/ Tick
    \/ RemoveUser

Spec == Init /\ [][Next]_vars

(***************************************************************************)
(* The rate limiters (express-rate-limit, one client IP).  A request is    *)
(* counted when it arrives; it is refused when the count, itself included, *)
(* exceeds max.  With skipSuccessfulRequests the count is taken back when  *)
(* the response finishes with a status below 400, never below zero.        *)
(***************************************************************************)
Increment(hits) == hits + 1

Exceeded(hits, max) == Increment(hits) > max

skipSuccessfulRequests(hits, status) ==
    IF status < BAD_REQUEST /\ hits > 0 THEN hits - 1 ELSE hits

\* authLimiter sets skipSuccessfulRequests; programLimiter sets no skip option.
authLimiterSettle(hits, status) == skipSuccessfulRequests(hits, status)

programLimiterSettleSkipSuccessful(hits, status) == skipSuccessfulRequests(hits, status)

programLimiterSettle(hits, status) == hits

\* The /auth requests of the client.
AuthRequests ==
    {[route |-> "login", body |-> [email |-> "company@example.com", password |-> pw]] :
         pw \in {"testtest", "wrong"}}
    \cup {[route |-> "register", body |-> RegisterBody("N", e, "testtest", "RESEARCHER")] :
              e \in {FreshEmail, "company@example.com"}}

AuthHandle(q) == IF q.route = "login" THEN login(q.body) ELSE register(q.body)

\* The /auth requests in flight that the store as it is answers with a failure.
FailingInflight == {q \in authInflight : AuthHandle(q).status >= BAD_REQUEST}

\* A request reaches authLimiter: it is counted, then refused or let through.
AuthArrive ==
    \E q \in AuthRequests :
        /\ authHits < AuthMax + MaxExtra
        /\ authHits' = Increment(authHits)
        /\ IF authLimiter(Exceeded(authHits, AuthMax)).next
           THEN /\ q \notin authInflight
                /\ Cardinality(authInflight) < MaxInflight
                /\ authInflight' = authInflight \cup {q}
           ELSE authInflight' = authInflight
        /\ UNCHANGED <<pending, users, programs, reports, nextUser, nextProgram, nextReport,
                       now, tokens, authFailed, authStale, authAdmittedFailed,
                       programHits, programPosts, reportPosts>>

\* The handler of a request in flight runs and its response finishes.
AuthFinish ==
    \E q \in authInflight :
        LET r == AuthHandle(q) IN
        /\ r.status = CREATED => nextUser <= MaxUsers
        /\ Answer(r)
        /\ Issue(r)
        /\ nextUser' = IF r.status = CREATED THEN nextUser + 1 ELSE nextUser
        /\ authInflight' = authInflight \ {q}
        /\ authHits' = authLimiterSettle(authHits, r.status)
        /\ authFailed' = IF r.status >= BAD_REQUEST THEN authFailed + 1 ELSE authFailed
        /\ authStale' = authStale \ {q}
        /\ authAdmittedFailed' = IF r.status >= BAD_REQUEST /\ q \notin authStale
                                 THEN authAdmittedFailed + 1
                                 ELSE authAdmittedFailed
        /\ UNCHANGED <<pending, nextProgram, nextReport, now, programHits, programPosts,
                       reportPosts>>

\* The window of authLimiter ends.
AuthWindowReset ==
    /\ authHits > 0 \/ authFailed > 0
    /\ authHits' = 0
    /\ authFailed' = 0
    /\ authStale' = authInflight
    /\ authAdmittedFailed' = 0
    /\ UNCHANGED <<pending, users, programs, reports, nextUser, nextProgram, nextReport,
                   now, tokens, authInflight, programHits, programPosts, reportPosts>>

AuthLimiterNext ==
    \/ AuthArrive
    \/ AuthFinish
    \/ AuthWindowReset

AuthLimiterSpec == Init /\ [][AuthLimiterNext]_vars

\* POST /api/programs behind programLimiter, for the hit counter as it is.
LimitedPostProgram(header, body) ==
    RoutePostProgram(Exceeded(programHits, ProgramMax), header, body)

PostProgramCounted ==
    \E header \in Headers, body \in CreateProgramBodies :
        LET r == LimitedPostProgram(header, body) IN
        /\ programPosts < ProgramMax + MaxExtra
        /\ r.status = CREATED => nextProgram <= MaxPrograms
        /\ Answer(r)
        /\ nextProgram' = IF r.status = CREATED THEN nextProgram + 1 ELSE nextProgram
        /\ programHits' = programLimiterSettle(Increment(programHits), r.status)
        /\ programPosts' = programPosts + 1
        /\ UNCHANGED <<pending, nextUser, nextReport, now, tokens, authHits, authInflight,
                       authFailed, authStale, authAdmittedFailed, reportPosts>>

\* The window of programLimiter ends.
ProgramWindowReset ==
    /\ programPosts > 0
    /\ programHits' = 0
    /\ programPosts' = 0
    /\ UNCHANGED <<pending, users, programs, reports, nextUser, nextProgram, nextReport,
                   now, tokens, authHits, authInflight, authFailed, authStale,
                   authAdmittedFailed, reportPosts>>

ProgramLimiterNext ==
    \/ PostLogin
    \/ PostRegister
    \/ PostProgramCounted
    \/ ProgramWindowReset

ProgramLimiterSpec == Init /\ [][ProgramLimiterNext]_vars

\* The routers server.js mounts.
Mounted == {"/api/auth", "/api/programs"}

\* POST /api/reports as the application answers it.
AppPostReport(header, body) ==
    IF "/api/reports" \in Mounted
    THEN RoutePostReport(header, body)
    ELSE Res(NOT_FOUND, "Cannot POST /api/reports")

\* POST /reports, counted over one hour.
PostReportCounted ==
    \E header \in Headers, body \in ReportBodies :
        LET r == RoutePostReport(header, body) IN
        /\ reportPosts < ReportMax + MaxExtra
        /\ r.status = CREATED => nextReport <= MaxReports
        /\ Answer(r)
        /\ nextReport' = IF r.status = CREATED THEN nextReport + 1 ELSE nextReport
        /\ reportPosts' = reportPosts + 1
        /\ UNCHANGED <<pending, nextUser, nextProgram, now, tokens, authHits, authInflight,
                       authFailed, authStale, authAdmittedFailed, programHits,
                       programPosts>>

\* The hour ends.
ReportWindowReset ==
    /\ reportPosts > 0
    /\ reportPosts' = 0
    /\ UNCHANGED <<pending, users, programs, reports, nextUser, nextProgram, nextReport,
                   now, tokens, authHits, authInflight, authFailed, authStale,
                   authAdmittedFailed, programHits, programPosts>>

ReportLimiterNext ==
    \/ PostLogin
    \/ PostRegister
    \/ PostReportCounted
    \/ ReportWindowReset

ReportLimiterSpec == Init /\ [][ReportLimiterNext]_vars

(***************************************************************************)
(* The life of a report: every value of status and severity a PATCH can    *)
(* carry, supplied or omitted.                                             *)
(***************************************************************************)
AllStatusBodies ==
    {StatusBody(s, v) : s \in Status \cup {"undefined", ""},
                        v \in Severity \cup {"undefined", ""}}

PatchAnyReportStatus ==
    \E header \in Headers, id \in ReportIds, body \in AllStatusBodies :
        /\ Answer(RoutePatchReportStatus(header, id, body))
        /\ UNCHANGED <<limiterVars, pending, nextUser, nextProgram, nextReport, now, tokens>>

ReportLifeNext ==
    \/ PostLogin
    \/ PostReport
    \/ PatchAnyReportStatus

ReportLifeSpec == Init /\ [][ReportLifeNext]_vars

(***************************************************************************)
(* Interleaved handlers.  createReport, updateProgram, updateReportStatus  *)
(* and deleteProgram read, compare and then write in separate persistence  *)
(* calls; pending holds the requests whose checks have passed and whose    *)
(* write is still to come, each with the id of its actor (req.user.id).    *)
(***************************************************************************)
MaxPending == 2

Request(op, actor, id, body) == [op |-> op, actor |-> actor, id |-> id, body |-> body]

\* prisma.report.create without Report_programId_fkey and
\* Report_researcherId_fkey.
commitCreateReportNoForeignKey(q) ==
    LET report == [id |-> nextReport, title |-> q.body.title,
                   description |-> q.body.description,
                   severity |-> "LOW", status |-> "OPEN",
                   programId |-> q.body.programId,
                   researcherId |-> q.actor]
    IN [Res(CREATED, "") EXCEPT !.reports = reports \cup {report},
                                !.body = {report}]

\* prisma.report.create of createReport: the foreign keys refuse a report
\* whose program or researcher is gone, and the catch answers 500.
commitCreateReport(q) ==
    IF (\A p \in programs : p.id # q.body.programId) \/ (\A u \in users : u.id # q.actor)
    THEN Res(INTERNAL_SERVER_ERROR, "Failed to create report")
    ELSE LET report == [id |-> nextReport, title |-> q.body.title,
                        description |-> q.body.description,
                        severity |-> "LOW", status |-> "OPEN",
                        programId |-> q.body.programId,
                        researcherId |-> q.actor]
         IN [Res(CREATED, "") EXCEPT !.reports = reports \cup {report},
                                     !.body = {report}]

\* prisma.program.update of updateProgram: no record with the id, 500.
commitUpdateProgram(q) ==
    LET program == {p \in programs : p.id = q.id} IN
    IF program = {}
    THEN Res(INTERNAL_SERVER_ERROR, "Failed to update program")
    ELSE LET old == The(program)
             updatedProgram ==
                 [old EXCEPT !.name = Patched(old.name, q.body.name),
                             !.description = Patched(old.description, q.body.description),
                             !.scope = Patched(old.scope, q.body.scope),
                             !.rewardMin = Patched(old.rewardMin, q.body.rewardMin),
                             !.rewardMax = Patched(old.rewardMax, q.body.rewardMax)]
         IN [Res(OK, "") EXCEPT !.programs = (programs \ program) \cup {updatedProgram},
                                !.body = {updatedProgram}]

\* prisma.program.delete of deleteProgram, with the cascade on its reports.
commitDeleteProgram(q) ==
    LET program == {p \in programs : p.id = q.id} IN
    IF program = {}
    THEN Res(INTERNAL_SERVER_ERROR, "Failed to delete program")
    ELSE [Res(NO_CONTENT, "") EXCEPT !.programs = programs \ program,
                                     !.reports = {r \in reports : r.programId # q.id}]

\* prisma.report.update of updateReportStatus.
commitUpdateReportStatus(q) ==
    LET report == {r \in reports : r.id = q.id} IN
    IF report = {}
    THEN Res(INTERNAL_SERVER_ERROR, "Failed to update report")
    ELSE LET old == The(report)
             updatedReport ==
                 [old EXCEPT
                     !.status = IF Truthy(q.body.status) THEN q.body.status ELSE old.status,
                     !.severity = IF Truthy(q.body.severity) THEN q.body.severity
                                  ELSE old.severity]
         IN [Res(OK, "") EXCEPT !.reports = (reports \ report) \cup {updatedReport},
                                !.body = {updatedReport}]

Commit(q) ==
    CASE q.op = "createReport" -> commitCreateReport(q)
      [] q.op = "updateProgram" -> commitUpdateProgram(q)
      [] q.op = "deleteProgram" -> commitDeleteProgram(q)
      [] q.op = "updateReportStatus" -> commitUpdateReportStatus(q)

\* A request passes the gates and the checks of its handler (the answer of
\* the whole route on the store as it is would be a success) and is left
\* before its write.
Begin(q) ==
    /\ q \notin pending
    /\ Cardinality(pending) < MaxPending
    /\ pending' = pending \cup {q}
    /\ UNCHANGED <<users, programs, reports, nextUser, nextProgram, nextReport,
                   now, tokens, limiterVars>>

BeginCreateReport ==
    \E header \in Headers :
        LET body == [programId |-> 1, title |-> "T", description |-> "D"] IN
        /\ RoutePostReport(header, body).status = CREATED
        /\ Begin(Request("createReport", ActorId(header), 0, body))

BeginUpdateProgram ==
    \E header \in Headers, id \in ProgramIds :
        LET body == [EmptyProgram EXCEPT !.name = "A"] IN
        /\ RoutePutProgram(header, id, body).status = OK
        /\ Begin(Request("updateProgram", ActorId(header), id, body))

BeginDeleteProgram ==
    \E header \in Headers, id \in ProgramIds :
        /\ RouteDeleteProgram(header, id).status = NO_CONTENT
        /\ Begin(Request("deleteProgram", ActorId(header), id, EmptyProgram))

BeginUpdateReportStatus ==
    \E header \in Headers, id \in ReportIds :
        LET body == StatusBody("IN_REVIEW", "undefined") IN
        /\ RoutePatchReportStatus(header, id, body).status = OK
        /\ Begin(Request("updateReportStatus", ActorId(header), id, body))

\* The write of a pending request, and its response.
Finish ==
    \E q \in pending :
        LET r == Commit(q) IN
        /\ r.status = CREATED => nextReport <= MaxReports
        /\ Answer(r)
        /\ nextReport' = IF r.status = CREATED THEN nextReport + 1 ELSE nextReport
        /\ pending' = pending \ {q}
        /\ UNCHANGED <<nextUser, nextProgram, now, tokens, limiterVars>>

RaceNext ==
    \/ PostLogin
    \/ PostProgram
    \/ BeginCreateReport
    \/ BeginUpdateProgram
    \/ BeginDeleteProgram
    \/ BeginUpdateReportStatus
    \/ Finish

RaceSpec == Init /\ [][RaceNext]_vars

(***************************************************************************)
(* Failures.  An error thrown while a request is handled: statusCode 0 and *)
(* details "undefined" stand for an error without them.                   *)
(***************************************************************************)
Err(statusCode, code, message, details) ==
    [statusCode |-> statusCode, code |-> code, message |-> message, details |-> details]

Errors ==
    {Err(0, "P1001", "Can't reach database server at db:5432", "undefined"),
     Err(0, "P2024", "Timed out fetching a new connection from the connection pool",
         "undefined"),
     Err(0, "", "", "undefined"),
     Err(BAD_REQUEST, "", "Validation failed", "email: Email is required")}

\* The errors that are no failure the code expects: no statusCode, and not
\* the unique-constraint violation register translates.
Unexpected == {e \in Errors : e.statusCode = 0 /\ e.code # "P2002"}

\* The centralized responder: the envelope {status, error, details}.
errorHandler(err) ==
    [status |-> IF err.statusCode # 0 THEN err.statusCode ELSE INTERNAL_SERVER_ERROR,
     error |-> IF Truthy(err.message) THEN err.message ELSE "Internal Server Error",
     details |-> IF Truthy(err.details) THEN err.details ELSE "null"]

\* authenticate when prisma.user.findUnique throws: the lookup stands inside
\* the try whose catch answers 'Invalid token'.
authenticateLookupFails(header) ==
    LET token == ExtractToken(header) IN
    IF token = NoToken
    THEN Deny(UNAUTHORIZED, "No token provided, authorization denied")
    ELSE LET decoded == verifyToken(token) IN
         IF decoded = {}
         THEN Deny(UNAUTHORIZED, "Invalid token")
         ELSE Deny(UNAUTHORIZED, "Invalid token")

\* The catch of register for an error thrown by prisma.user.create.
registerCatch(error) ==
    IF error.code = "P2002"
    THEN Res(CONFLICT, "A user with this email already exists")
    ELSE Res(INTERNAL_SERVER_ERROR, "Something went wrong")

\* The message in the catch of every other handler.
HandlerCatch ==
    [login |-> "Something went wrong",
     createProgram |-> "Failed to create program",
     getPrograms |-> "Failed to fetch programs",
     getProgramById |-> "Failed to fetch program",
     updateProgram |-> "Failed to update program",
     deleteProgram |-> "Failed to delete program",
     createReport |-> "Failed to create report",
     getReportsForProgram |-> "Failed to fetch reports",
     getReportById |-> "Failed to fetch report",
     updateReportStatus |-> "Failed to update report"]

\* The answers of the handlers whose persistence call throws error.
HandlerFailures(error) ==
    {registerCatch(error)}
    \cup {Res(INTERNAL_SERVER_ERROR, HandlerCatch[h]) : h \in DOMAIN HandlerCatch}

(***************************************************************************)
(* Properties.                                                             *)
(***************************************************************************)
\* The actor a request with this header runs as, once authenticate has
\* called next.
Authenticated(header) == authenticate(header).next
Actor(header) == The(authenticate(header).user)

RoleGateRefusal ==
    Res(FORBIDDEN, "You do not have permission to perform this action")

Unchanged(r) ==
    r.users = users /\ r.programs = programs /\ r.reports = reports

SuppliesField(body) == Truthy(body.status) \/ Truthy(body.severity)

\* The answers of every route behind authenticate to a request with this
\* header that its rate limiter lets through.
AuthenticatedRouteResults(header) ==
    {RouteMe(header)}
    \cup {RoutePostProgram(FALSE, header, b) : b \in CreateProgramBodies}
    \cup {RoutePutProgram(header, i, b) : i \in ProgramIds, b \in UpdateProgramBodies}
    \cup {RouteDeleteProgram(header, i) : i \in ProgramIds}
    \cup {RoutePostReport(header, b) : b \in ReportBodies}
    \cup {RouteGetReportsForProgram(header, i) : i \in ProgramIds}
    \cup {RouteGetReportById(header, i) : i \in ReportIds}
    \cup {RoutePatchReportStatus(header, i, b) : i \in ReportIds, b \in StatusBodies}

\* C1: in every reachable state, a PUT or DELETE of an existing program
\* succeeds (200 / 204), or changes the store at all, only for the
\* authenticated actor whose id is the program's companyId; every other
\* authenticated actor, another COMPANY actor included, is answered 403 and
\* programs and reports are left as they were.
ProgramMutationOnlyByOwner ==
    \A header \in Headers : \A p \in programs :
        LET owner == Authenticated(header) /\ Actor(header).id = p.companyId
            del == RouteDeleteProgram(header, p.id)
        IN /\ del.status = NO_CONTENT => owner /\ p \notin del.programs
           /\ ~Unchanged(del) => owner
           /\ Authenticated(header) /\ ~owner =>
                  del.status = FORBIDDEN /\ Unchanged(del)
           /\ \A body \in UpdateProgramBodies :
                  LET put == RoutePutProgram(header, p.id, body) IN
                  /\ put.status = OK => owner
                  /\ ~Unchanged(put) => owner
                  /\ Authenticated(header) /\ ~owner =>
                         put.status = FORBIDDEN /\ Unchanged(put)

\* C1 witness: a COMPANY actor that does not own an existing program is
\* refused its PUT and its DELETE with 403.
OtherCompanyRefusedProgramMutation ==
    \E header \in Headers : \E p \in programs :
        /\ Authenticated(header)
        /\ Actor(header).role = "COMPANY"
        /\ Actor(header).id # p.companyId
        /\ RouteDeleteProgram(header, p.id).status = FORBIDDEN
        /\ RoutePutProgram(header, p.id, [EmptyProgram EXCEPT !.name = "A"]).status
               = FORBIDDEN

\* C2: authenticate calls next only if the token verifies and the store holds
\* an actor with the token's id, and then req.user is exactly that actor; in
\* every other case it answers 401 with the message of the case (no token,
\* verification failure, actor absent) and does not call next; a request gets
\* exactly one of the two outcomes, and the handler behind it runs only on
\* the first.
AuthenticateFailsClosed ==
    \A header \in Headers :
        LET token == ExtractToken(header)
            a == authenticate(header)
            stored == {u \in users : u.id = token.id}
        IN /\ a.next <=> token # NoToken /\ verifyToken(token) # {} /\ stored # {}
           /\ a.next => a.status = 0 /\ a.user = stored /\ Cardinality(stored) = 1
           /\ ~a.next =>
                  /\ a.status = UNAUTHORIZED
                  /\ a.user = {}
                  /\ a.error =
                        IF token = NoToken
                        THEN "No token provided, authorization denied"
                        ELSE IF verifyToken(token) = {} THEN "Invalid token"
                        ELSE "User not found"
           /\ IF a.next
              THEN RouteMe(header).status = OK
                   /\ RouteMe(header).body = {WithoutPassword(The(stored))}
              ELSE \A r \in AuthenticatedRouteResults(header) :
                       r = Res(UNAUTHORIZED, a.error)

\* C2 witness: a token verifies, its actor is in the store and is attached.
StoredActorAttached ==
    \E header \in Headers :
        /\ ExtractToken(header) \in tokens
        /\ authenticate(header).next
        /\ authenticate(header).user \subseteq users
        /\ RouteMe(header).status = OK

\* C3 as stated: a PATCH /reports/:id/status of an existing report changes it
\* only for the actor whose id is the companyId of the report's program, and
\* every other authenticated actor is answered 403, whatever the body.
ReportStatusOthersAlways403 ==
    \A header \in Headers : \A x \in reports : \A body \in StatusBodies :
        LET owner == Authenticated(header)
                     /\ Actor(header).id = ProgramOf(x).companyId
            r == RoutePatchReportStatus(header, x.id, body)
        IN /\ ~Unchanged(r) => owner
           /\ Authenticated(header) /\ ~owner =>
                  r.status = FORBIDDEN /\ Unchanged(r)

\* C3: a PATCH /reports/:id/status of an existing report changes the store
\* only for the authenticated actor whose id is the companyId of the report's
\* program.  Any other authenticated actor leaves the report as it was and is
\* answered 403, except a COMPANY actor whose body supplies neither status
\* nor severity, who is answered 400.
ReportStatusOnlyByProgramOwner ==
    \A header \in Headers : \A x \in reports : \A body \in StatusBodies :
        LET owner == Authenticated(header)
                     /\ Actor(header).id = ProgramOf(x).companyId
            r == RoutePatchReportStatus(header, x.id, body)
        IN /\ ~Unchanged(r) => owner
           /\ r.status = OK => owner
           /\ Authenticated(header) /\ ~owner =>
                  /\ Unchanged(r)
                  /\ r.status =
                        IF Actor(header).role = "COMPANY" /\ ~SuppliesField(body)
                        THEN BAD_REQUEST ELSE FORBIDDEN

\* C3 witness: a COMPANY actor that does not own the program of an existing
\* report is refused a status change with 403, and answered 400 for a body
\* without status and severity.
OtherCompanyRefusedReportStatus ==
    \E header \in Headers : \E x \in reports :
        /\ Authenticated(header)
        /\ Actor(header).role = "COMPANY"
        /\ Actor(header).id # ProgramOf(x).companyId
        /\ RoutePatchReportStatus(header, x.id,
                                  StatusBody("IN_REVIEW", "undefined")).status = FORBIDDEN
        /\ RoutePatchReportStatus(header, x.id,
                                  StatusBody("undefined", "undefined")).status = BAD_REQUEST

\* The actor may read report x: its submitting researcher or the company
\* owning its program.
MayRead(header, x) ==
    \/ Actor(header).role = "RESEARCHER" /\ x.researcherId = Actor(header).id
    \/ Actor(header).role = "COMPANY" /\ ProgramOf(x).companyId = Actor(header).id

\* C4 as stated: GET /reports/:id of an existing report is answered 200 iff
\* the actor is the submitting researcher or the owning company, and every
\* other authenticated actor is answered 403 "You are not authorized to view
\* this report".
ReportReadOthersGetViewRefusal ==
    \A header \in Headers : \A x \in reports :
        LET r == RouteGetReportById(header, x.id) IN
        /\ r.status = OK <=> Authenticated(header) /\ MayRead(header, x)
        /\ Authenticated(header) /\ ~MayRead(header, x) =>
               r.status = FORBIDDEN
               /\ r.error = "You are not authorized to view this report"

\* C4: GET /reports/:id of an existing report is answered 200 with the report
\* iff the actor is the submitting researcher or the owning company.  Every
\* other authenticated RESEARCHER or COMPANY actor is answered 403 "You are
\* not authorized to view this report"; an ADMIN is answered the 403 of the
\* role gate.
ReportReadOnlySubmitterOrOwner ==
    \A header \in Headers : \A x \in reports :
        LET r == RouteGetReportById(header, x.id) IN
        /\ r.status = OK <=> Authenticated(header) /\ MayRead(header, x)
        /\ r.status = OK => r.body = {x}
        /\ Authenticated(header) /\ ~MayRead(header, x) =>
               /\ r.body = {}
               /\ IF Actor(header).role \in {"RESEARCHER", "COMPANY"}
                  THEN r.status = FORBIDDEN
                       /\ r.error = "You are not authorized to view this report"
                  ELSE r = RoleGateRefusal

\* C4 witness: a RESEARCHER asks for an existing report of another
\* researcher and is refused with 403.
OtherResearcherRefusedReportRead ==
    \E header \in Headers : \E x \in reports :
        /\ Authenticated(header)
        /\ Actor(header).role = "RESEARCHER"
        /\ x.researcherId # Actor(header).id
        /\ RouteGetReportById(header, x.id).status = FORBIDDEN
        /\ RouteGetReportById(header, x.id).error
               = "You are not authorized to view this report"

\* C5: for every program and every reachable store, GET
\* /reports/program/:programId answers a RESEARCHER with exactly the reports
\* of the program whose researcherId is the actor's id, the COMPANY actor
\* owning the program with all the reports of the program, and a COMPANY
\* actor not owning it with 403 and no report.
ReportListNarrowedToOwn ==
    \A header \in Headers : \A p \in programs :
        LET r == RouteGetReportsForProgram(header, p.id)
            ofProgram == {x \in reports : x.programId = p.id}
        IN Authenticated(header) =>
           /\ Actor(header).role = "RESEARCHER" =>
                  /\ r.status = OK
                  /\ r.body = {x \in ofProgram : x.researcherId = Actor(header).id}
           /\ Actor(header).role = "COMPANY" /\ p.companyId = Actor(header).id =>
                  r.status = OK /\ r.body = ofProgram
           /\ Actor(header).role = "COMPANY" /\ p.companyId # Actor(header).id =>
                  r.status = FORBIDDEN /\ r.body = {}

\* C5 witness: a RESEARCHER lists a program that also holds a report of
\* another researcher, and receives its own report only.
ResearcherSeesOwnAmongOthers ==
    \E header \in Headers : \E p \in programs :
        /\ Authenticated(header)
        /\ Actor(header).role = "RESEARCHER"
        /\ \E x \in reports : x.programId = p.id /\ x.researcherId # Actor(header).id
        /\ RouteGetReportsForProgram(header, p.id).status = OK
        /\ RouteGetReportsForProgram(header, p.id).body # {}
        /\ \A x \in RouteGetReportsForProgram(header, p.id).body :
               x.researcherId = Actor(header).id

\* The tokens the server has issued whose actor is no longer in the store.
TokensOfRemoved == {t \in tokens : ~\E u \in users : u.id = t.id}

\* C6 as stated: a token issued for an actor and presented after the actor
\* was removed is answered 401 "User not found" on every authenticated route.
RemovedActorAlwaysUserNotFound ==
    \A t \in TokensOfRemoved :
        /\ ~Authenticated(<<"Bearer", t>>)
        /\ \A r \in AuthenticatedRouteResults(<<"Bearer", t>>) :
               r = Res(UNAUTHORIZED, "User not found")

\* C6: a token issued for an actor and presented after the actor was removed
\* never authenticates a request: every authenticated route answers 401 and
\* leaves the store alone, with "User not found" while the token has not
\* expired and "Invalid token" once it has.
RemovedActorNeverAuthenticates ==
    \A t \in TokensOfRemoved :
        /\ ~Authenticated(<<"Bearer", t>>)
        /\ \A r \in AuthenticatedRouteResults(<<"Bearer", t>>) :
               r = Res(UNAUTHORIZED,
                       IF now < t.exp THEN "User not found" ELSE "Invalid token")

\* C6 witness: the clients hold an unexpired token of a removed actor, and
\* GET /auth/me answers it 401 "User not found".
RemovedActorTokenPresented ==
    \E t \in TokensOfRemoved :
        /\ now < t.exp
        /\ RouteMe(<<"Bearer", t>>) = Res(UNAUTHORIZED, "User not found")

\* C7: a token expires one hour after it was issued; at or after its expiry
\* every authenticated route answers it 401 and leaves the store alone, even
\* though its actor exists and even when the client has rewritten the expiry
\* in its payload; before its expiry, with its actor in the store, it
\* authenticates as that actor.
TokenExpiresAfterOneHour ==
    /\ \A t \in tokens :
           /\ t.exp = t.iat + 60 * 60
           /\ t.iat <= now
           /\ now >= t.exp =>
                  /\ ~Authenticated(<<"Bearer", t>>)
                  /\ \A r \in AuthenticatedRouteResults(<<"Bearer", t>>) :
                         r.status = UNAUTHORIZED /\ Unchanged(r)
           /\ now < t.exp /\ (\E u \in users : u.id = t.id) =>
                  /\ Authenticated(<<"Bearer", t>>)
                  /\ Actor(<<"Bearer", t>>).id = t.id
                  /\ RouteMe(<<"Bearer", t>>).status = OK
    /\ \A f \in Forged :
           /\ ~Authenticated(<<"Bearer", f>>)
           /\ \A r \in AuthenticatedRouteResults(<<"Bearer", f>>) :
                  r.status = UNAUTHORIZED /\ Unchanged(r)

\* C7 witness: a token is presented exactly at its expiry, its actor still in
\* the store, and GET /auth/me answers 401.
ExpiredTokenOfExistingActor ==
    \E t \in tokens :
        /\ now >= t.exp
        /\ \E u \in users : u.id = t.id
        /\ RouteMe(<<"Bearer", t>>).status = UNAUTHORIZED

\* C8: on every route with a role gate, an authenticated actor is answered
\* the gate's 403 "You do not have permission to perform this action", with
\* the store untouched, exactly when its role is not in the route's
\* allow-list: whatever the id (of an existing resource or not) and whatever
\* the body.
RoleGateBeforeHandler ==
    \A header \in Headers :
        Authenticated(header) =>
        LET role == Actor(header).role IN
        /\ \A b \in CreateProgramBodies :
               RoutePostProgram(FALSE, header, b) = RoleGateRefusal
                   <=> role # "COMPANY"
        /\ \A i \in ProgramIds :
               /\ \A b \in UpdateProgramBodies :
                      RoutePutProgram(header, i, b) = RoleGateRefusal
                          <=> role # "COMPANY"
               /\ RouteDeleteProgram(header, i) = RoleGateRefusal
                      <=> role # "COMPANY"
               /\ RouteGetReportsForProgram(header, i) = RoleGateRefusal
                      <=> role \notin {"COMPANY", "RESEARCHER"}
        /\ \A b \in ReportBodies :
               RoutePostReport(header, b) = RoleGateRefusal
                   <=> role # "RESEARCHER"
        /\ \A i \in ReportIds :
               /\ RouteGetReportById(header, i) = RoleGateRefusal
                      <=> role \notin {"COMPANY", "RESEARCHER"}
               /\ \A b \in StatusBodies :
                      RoutePatchReportStatus(header, i, b) = RoleGateRefusal
                          <=> role # "COMPANY"

\* C8 witness: a RESEARCHER is refused by the role gate of PUT /programs/:id
\* for an id no program has, and an ADMIN or COMPANY actor cannot be: the
\* gate answered before the program was looked up.
RoleGateOnMissingProgram ==
    \E header \in Headers : \E i \in ProgramIds :
        /\ Authenticated(header)
        /\ Actor(header).role = "RESEARCHER"
        /\ ~\E p \in programs : p.id = i
        /\ RoutePutProgram(header, i, EmptyProgram) = RoleGateRefusal
        /\ RoutePatchReportStatus(header, 1, StatusBody("undefined", "undefined"))
               = RoleGateRefusal

MissingPrograms == {i \in ProgramIds : ~\E p \in programs : p.id = i}
MissingReports == {i \in ReportIds : ~\E x \in reports : x.id = i}

\* C9 as stated: every authenticated actor, of any role, is answered 404 on
\* an id that does not exist.
MissingResourceAlways404 ==
    \A header \in Headers :
        Authenticated(header) =>
        /\ \A i \in MissingPrograms :
               /\ \A b \in UpdateProgramBodies :
                      RoutePutProgram(header, i, b).status = NOT_FOUND
               /\ RouteDeleteProgram(header, i).status = NOT_FOUND
               /\ RouteGetReportsForProgram(header, i).status = NOT_FOUND
        /\ \A i \in MissingReports :
               /\ RouteGetReportById(header, i).status = NOT_FOUND
               /\ \A b \in {c \in StatusBodies : SuppliesField(c)} :
                      RoutePatchReportStatus(header, i, b).status = NOT_FOUND

\* C9: an authenticated actor whose role is in the route's allow-list is
\* answered 404, never 403, on an id that does not exist (PUT and DELETE
\* /programs/:id, GET /reports/:id, GET /reports/program/:programId, PATCH
\* /reports/:id/status with a status or a severity); an actor whose role is
\* not in the allow-list is answered the role gate's 403.  The store is left
\* alone.
MissingResource404PastRoleGate ==
    \A header \in Headers :
        Authenticated(header) =>
        LET role == Actor(header).role
            Expect(r, allowed) ==
                /\ Unchanged(r)
                /\ IF role \in allowed
                   THEN r.status = NOT_FOUND
                   ELSE r = RoleGateRefusal
        IN /\ \A i \in MissingPrograms :
                  /\ \A b \in UpdateProgramBodies :
                         Expect(RoutePutProgram(header, i, b), {"COMPANY"})
                  /\ Expect(RouteDeleteProgram(header, i), {"COMPANY"})
                  /\ Expect(RouteGetReportsForProgram(header, i),
                            {"COMPANY", "RESEARCHER"})
           /\ \A i \in MissingReports :
                  /\ Expect(RouteGetReportById(header, i), {"COMPANY", "RESEARCHER"})
                  /\ \A b \in {c \in StatusBodies : SuppliesField(c)} :
                         Expect(RoutePatchReportStatus(header, i, b), {"COMPANY"})

\* C9 witness: a COMPANY actor asks for the reports of a program id that no
\* program has, after a program was deleted, and is answered 404.
CompanyMissingProgram404 ==
    \E header \in Headers : \E i \in MissingPrograms :
        /\ Authenticated(header)
        /\ Actor(header).role = "COMPANY"
        /\ i < nextProgram
        /\ RouteGetReportsForProgram(header, i).status = NOT_FOUND
        /\ RouteDeleteProgram(header, i).status = NOT_FOUND

\* C10 as stated: on GET /reports/program/:programId of an existing program,
\* every authenticated actor whose role is not COMPANY, RESEARCHER or ADMIN,
\* is answered 200 with its own reports of the program, never 403.
NonCompanyNeverForbiddenOnList ==
    \A header \in Headers : \A p \in programs :
        Authenticated(header) /\ Actor(header).role # "COMPANY" =>
            LET r == RouteGetReportsForProgram(header, p.id) IN
            /\ r.status = OK
            /\ r.body = {x \in reports : x.programId = p.id
                                         /\ x.researcherId = Actor(header).id}

\* C10: on GET /reports/program/:programId of an existing program, every
\* authenticated RESEARCHER is answered 200 with its own reports of the
\* program (possibly none), never 403; an ADMIN is answered the 403 of the
\* role gate and receives no report.
ResearcherNeverForbiddenOnList ==
    \A header \in Headers : \A p \in programs :
        Authenticated(header) =>
            LET r == RouteGetReportsForProgram(header, p.id) IN
            /\ Actor(header).role = "RESEARCHER" =>
                   /\ r.status = OK
                   /\ r.body = {x \in reports : x.programId = p.id
                                                /\ x.researcherId = Actor(header).id}
            /\ Actor(header).role = "ADMIN" => r = RoleGateRefusal

\* C10 witness: a RESEARCHER without a report on an existing program that
\* holds reports lists it and is answered 200 with an empty list.
ResearcherGetsEmptyList ==
    \E header \in Headers : \E p \in programs :
        /\ Authenticated(header)
        /\ Actor(header).role = "RESEARCHER"
        /\ \E x \in reports : x.programId = p.id
        /\ RouteGetReportsForProgram(header, p.id).status = OK
        /\ RouteGetReportsForProgram(header, p.id).body = {}

\* Create bodies with a required field missing or falsy; among the report
\* bodies, one that names no program.
IncompletePrograms ==
    {b \in CreateProgramBodies :
         ~Truthy(b.name) \/ ~Truthy(b.description) \/ ~Truthy(b.scope)
         \/ ~Truthy(b.rewardMin) \/ ~Truthy(b.rewardMax)}

IncompleteReports ==
    {[programId |-> 0, title |-> "T", description |-> "D"]}
    \cup {[programId |-> i, title |-> "undefined", description |-> "D"] : i \in ProgramIds}
    \cup {[programId |-> i, title |-> "T", description |-> ""] : i \in ProgramIds}

\* C11 as stated: POST /programs and POST /reports answer a body with a
\* missing or falsy required field with 400 whatever the caller's token or
\* role.
ValidationBeforeAuthorization ==
    \A header \in Headers :
        /\ \A b \in IncompletePrograms :
               RoutePostProgram(FALSE, header, b).status = BAD_REQUEST
        /\ \A b \in IncompleteReports :
               RoutePostReport(header, b).status = BAD_REQUEST

\* C11: the handlers of POST /programs and of the reports router's POST /
\* answer a body with a missing or falsy required field with 400 before they
\* read or write a program or a report (a report body that names no program
\* is answered 400, not 404), after authenticate and the role gate: a caller
\* without a valid token is answered 401 and one whose role is not in the
\* allow-list 403, whatever the body.
ValidationBeforeLookup ==
    \A header \in Headers :
        LET a == authenticate(header)
            Expect(r, allowed, error) ==
                r = IF ~a.next THEN Res(UNAUTHORIZED, a.error)
                    ELSE IF The(a.user).role \notin allowed THEN RoleGateRefusal
                    ELSE Res(BAD_REQUEST, error)
        IN /\ \A b \in IncompletePrograms :
                  Expect(RoutePostProgram(FALSE, header, b), {"COMPANY"},
                         "All fields are required")
           /\ \A b \in IncompleteReports :
                  Expect(RoutePostReport(header, b), {"RESEARCHER"},
                         "Program ID, title, and description are required")

\* C11 witness: a RESEARCHER posts a report without title for a program id
\* that no program has and is answered 400.
IncompleteReportOnMissingProgram ==
    \E header \in Headers : \E i \in MissingPrograms :
        /\ Authenticated(header)
        /\ Actor(header).role = "RESEARCHER"
        /\ RoutePostReport(header, [programId |-> i, title |-> "undefined",
                                    description |-> "D"]).status = BAD_REQUEST

\* Registration bodies whose email an actor of the store already uses.
UsedEmailBodies ==
    [name : {"N", "undefined"}, email : {u.email : u \in users},
     password : {"testtest", "pw2", "undefined"}, role : RoleInputs]

UniqueEmails == \A u, v \in users : u.email = v.email => u = v

Registered ==
    {[id |-> i, email |-> EmailList[i], password |-> "testtest"] :
         i \in (Cardinality(SeedUsers) + 1)..(nextUser - 1)}

\* C13 as stated: after a registration answered 201, any later login with the
\* same email and password is answered 200 with a token for that actor.
LoginAfterRegistrationAlways200 ==
    \A c \in Registered : \A exhausted \in BOOLEAN :
        LET r == RouteLogin(exhausted, [email |-> c.email, password |-> c.password])
        IN r.status = OK /\ r.token.id = c.id

\* C13: after a registration answered 201, a later login with the same email
\* and password that the auth limiter lets through is answered 200 with the
\* actor and a token for it as long as the actor is in the store, and 401
\* once the actor was removed; a login the limiter refuses is answered 429.
LoginAfterRegistration ==
    \A c \in Registered :
        LET credentials == [email |-> c.email, password |-> c.password]
            stored == {u \in users : u.id = c.id}
            r == RouteLogin(FALSE, credentials)
        IN /\ RouteLogin(TRUE, credentials).status = TOO_MANY_REQUESTS
           /\ IF stored # {}
              THEN /\ r.status = OK
                   /\ r.token.id = c.id
                   /\ r.token.email = c.email
                   /\ verifyToken(r.token) # {}
                   /\ r.body = {WithoutPassword(The(stored))}
              ELSE r = Res(UNAUTHORIZED, "Invalid email or password")

\* C13 witness: an hour after its registration an actor logs in with the
\* credentials it registered with and is answered 200.
RegisteredLogsInLater ==
    \E c \in Registered :
        /\ now > 0
        /\ \E u \in users : u.id = c.id
        /\ RouteLogin(FALSE, [email |-> c.email, password |-> c.password]).status = OK

\* The answers that serialize an actor.
ActorResponses ==
    {RouteRegister(FALSE, b) : b \in RegisterBodies}
    \cup {RouteLogin(FALSE, b) : b \in LoginBodies}
    \cup {RouteMe(header) : header \in Headers}

\* C14: in every reachable state, no answer of register, login or GET
\* /auth/me carries a passwordHash field, in the actor it serializes or in
\* the token; nor does the body of any other route.
NoPasswordHashInResponses ==
    /\ \A r \in ActorResponses :
           /\ \A u \in r.body : "passwordHash" \notin DOMAIN u
           /\ "passwordHash" \notin DOMAIN r.token
           /\ r.status \in {OK, CREATED} => r.body # {}
    /\ \A header \in Headers : \A r \in AuthenticatedRouteResults(header) :
           \A x \in r.body : "passwordHash" \notin DOMAIN x

\* C14 witness: register, login and GET /auth/me each answer with an actor.
ActorsSerialized ==
    /\ \E r \in {RouteRegister(FALSE, b) : b \in RegisterBodies} : r.status = CREATED
    /\ \E r \in {RouteLogin(FALSE, b) : b \in LoginBodies} : r.status = OK
    /\ \E header \in Headers :
           /\ RouteMe(header).status = OK
           /\ RouteMe(header).body = {WithoutPassword(Actor(header))}
           /\ Actor(header).passwordHash = hashPassword("testtest")

\* C19: every POST /programs answered 201 adds exactly one program, whose
\* companyId is the id of the authenticated actor, of role COMPANY, whatever
\* companyId the body carries; in every reachable state the companyId of
\* each program is the id of an actor of the store whose role is COMPANY.
ProgramOwnerIsCreator ==
    /\ \A p \in programs :
           \E u \in users : u.id = p.companyId /\ u.role = "COMPANY"
    /\ \A header \in Headers : \A b \in CreateProgramBodies :
           LET r == RoutePostProgram(FALSE, header, b) IN
           r.status = CREATED =>
               /\ Authenticated(header)
               /\ Actor(header).role = "COMPANY"
               /\ \E p \in r.programs :
                      /\ p \notin programs
                      /\ r.programs = programs \cup {p}
                      /\ r.body = {p}
                      /\ p.companyId = Actor(header).id

\* C19 witness: a program was created through POST /programs, and a COMPANY
\* actor posting a body that carries the id of another actor as companyId is
\* answered 201.
ProgramCreatedForOwnId ==
    /\ \E p \in programs : p \notin SeedPrograms /\ p.id >= 2
    /\ \E header \in Headers : \E b \in CreateProgramBodies :
           /\ Authenticated(header)
           /\ b.companyId \notin {0, Actor(header).id}
           /\ RoutePostProgram(FALSE, header, b).status = CREATED

\* C20: no step changes the companyId of a program or the researcherId or
\* programId of a report: whatever the requests and their bodies, they stay
\* as they were when the program or report was created.
OwnersImmutable ==
    [][/\ \A p \in programs : \A q \in programs' :
              q.id = p.id => q.companyId = p.companyId
       /\ \A x \in reports : \A y \in reports' :
              y.id = x.id => y.researcherId = x.researcherId
                             /\ y.programId = x.programId]_vars

\* C20 witness: the seed program was updated by a PUT and the seed report by
\* a status change, and both have the owner they were created with; a PUT
\* whose body carries another companyId is answered 200.
UpdatedKeepOwners ==
    /\ \E p \in programs : p.id = 1 /\ p.name = "A" /\ p.companyId = 2
    /\ \E x \in reports :
           /\ x.id = 1
           /\ x.status # "OPEN" \/ x.severity # "HIGH"
           /\ x.researcherId = 3 /\ x.programId = 1
    /\ \E header \in Headers : \E b \in UpdateProgramBodies :
           /\ Authenticated(header)
           /\ b.companyId \notin {0, Actor(header).id}
           /\ RoutePutProgram(header, 1, b).status = OK

(***************************************************************************)
(* C15.  Only failed attempts consume the quota of the /auth limiter: a    *)
(* request is refused only when five failed attempts of the window precede *)
(* it (answered already, or in flight and about to fail), however many     *)
(* successful requests were answered or are in flight, and after five      *)
(* failed attempts of the window the next request is refused.              *)
(***************************************************************************)
AuthQuotaOnlyFailures ==
    LET refused == ~authLimiter(Exceeded(authHits, AuthMax)).next IN
    /\ refused => authFailed + Cardinality(FailingInflight) >= 5
    /\ authFailed >= 5 => refused

(***************************************************************************)
(* C16.  The eleventh POST /reports of a client within one hour is         *)
(* answered 429, on the reports router and through the application.        *)
(***************************************************************************)
ReportLimiterEnforced ==
    reportPosts >= 10 =>
        \A header \in Headers, body \in ReportBodies :
            /\ RoutePostReport(header, body).status = TOO_MANY_REQUESTS
            /\ AppPostReport(header, body).status = TOO_MANY_REQUESTS

(***************************************************************************)
(* C17.  Every POST /programs counts toward the limit of five per window,  *)
(* whatever its outcome: the counter equals the number of such requests in *)
(* the window; once five were made the next is answered 429 with the       *)
(* limiter's message and changes nothing, whoever sends it and whatever it *)
(* carries; before that the request is answered by the route.              *)
(***************************************************************************)
ProgramLimiterCountsEveryRequest ==
    /\ programHits = programPosts
    /\ \A header \in Headers, body \in CreateProgramBodies :
           LET r == LimitedPostProgram(header, body) IN
           IF programPosts >= 5
           THEN r = Res(TOO_MANY_REQUESTS,
                        "Too many programs created from this IP, please try again tomorrow.")
           ELSE /\ r = RoutePostProgram(FALSE, header, body)
                /\ r.status \in {UNAUTHORIZED, FORBIDDEN, BAD_REQUEST, CREATED}

\* C17 witness: five POST /programs were made in the window, one of them
\* created a program, and a complete request of a company is now refused.
FifthProgramPostRefusesNext ==
    /\ programPosts = 5
    /\ \E p \in programs : p.id > 1
    /\ \E header \in Headers :
           /\ Authenticated(header)
           /\ Actor(header).role = "COMPANY"
           /\ LimitedPostProgram(header, FullProgram("A")).status = TOO_MANY_REQUESTS

(***************************************************************************)
(* C18.  POST /api/reports of an authenticated RESEARCHER with a title, a  *)
(* description and the id of an existing program is answered 201 and adds  *)
(* exactly one report, OPEN, LOW, of that program and of the actor; for a  *)
(* missing program it is answered 404 and adds nothing.                    *)
(***************************************************************************)
ResearcherCreatesReport ==
    \A header \in Headers :
    \A body \in {[programId |-> i, title |-> "T", description |-> "D"] :
                     i \in 1..(MaxPrograms + 1)} :
        (Authenticated(header) /\ Actor(header).role = "RESEARCHER") =>
            LET r == AppPostReport(header, body) IN
            IF \E p \in programs : p.id = body.programId
            THEN /\ r.status = CREATED
                 /\ \E x \in r.reports \ reports :
                        /\ r.reports = reports \cup {x}
                        /\ x.status = "OPEN"
                        /\ x.severity = "LOW"
                        /\ x.programId = body.programId
                        /\ x.researcherId = Actor(header).id
            ELSE /\ r.status = NOT_FOUND
                 /\ r.reports = reports

(***************************************************************************)
(* C21.  Status and severity of every report stay within the two enums,    *)
(* and from every value of them the company owning the report's program    *)
(* sets any status, any severity or both: the PATCH is answered 200 and    *)
(* the report carries the values sent, whatever it carried before.         *)
(***************************************************************************)
EveryStatusTransitionAccepted ==
    /\ \A x \in reports : x.status \in Status /\ x.severity \in Severity
    /\ \A header \in Headers : \A x \in reports :
           (Authenticated(header) /\ Actor(header).role = "COMPANY"
            /\ Actor(header).id = ProgramOf(x).companyId) =>
               \A s \in Status, v \in Severity :
                   LET both == RoutePatchReportStatus(header, x.id, StatusBody(s, v))
                       st == RoutePatchReportStatus(header, x.id, StatusBody(s, "undefined"))
                       sv == RoutePatchReportStatus(header, x.id, StatusBody("undefined", v))
                   IN /\ both.status = OK
                      /\ [x EXCEPT !.status = s, !.severity = v] \in both.reports
                      /\ st.status = OK
                      /\ [x EXCEPT !.status = s] \in st.reports
                      /\ sv.status = OK
                      /\ [x EXCEPT !.severity = v] \in sv.reports

\* C21 witness: a report was set to RESOLVED and CRITICAL, and the owner of
\* its program reopens it with 200.
ResolvedReportReopened ==
    \E header \in Headers : \E x \in reports :
        /\ x.status = "RESOLVED"
        /\ x.severity = "CRITICAL"
        /\ Authenticated(header)
        /\ Actor(header).id = ProgramOf(x).companyId
        /\ RoutePatchReportStatus(header, x.id, StatusBody("OPEN", "undefined")).status = OK

(***************************************************************************)
(* C22.  A PATCH /reports/:id/status answered 200 replaces one report by   *)
(* itself with the supplied fields set: an omitted status or severity      *)
(* keeps its value, title, description, programId and researcherId keep    *)
(* theirs, and nothing else in the store changes.  With neither supplied   *)
(* updateReportStatus answers 400 'Status or severity must be provided'    *)
(* for every actor and every id, so does the route for an actor past its   *)
(* gates, and the store is left as it was.                                 *)
(***************************************************************************)
PatchChangesOnlySuppliedFields ==
    \A header \in Headers, id \in ReportIds, body \in AllStatusBodies :
        LET r == RoutePatchReportStatus(header, id, body) IN
        /\ ~SuppliesField(body) =>
               /\ \A u \in users :
                      updateReportStatus({u}, id, body)
                          = Res(BAD_REQUEST, "Status or severity must be provided")
               /\ (Authenticated(header) /\ Actor(header).role = "COMPANY") =>
                      r = Res(BAD_REQUEST, "Status or severity must be provided")
        /\ r.status = OK =>
               /\ SuppliesField(body)
               /\ r.users = users
               /\ r.programs = programs
               /\ \E old \in reports :
                      LET new == [old EXCEPT
                                     !.status = IF Truthy(body.status)
                                                THEN body.status ELSE old.status,
                                     !.severity = IF Truthy(body.severity)
                                                  THEN body.severity ELSE old.severity]
                      IN /\ old.id = id
                         /\ r.reports = (reports \ {old}) \cup {new}
                         /\ r.body = {new}
        /\ r.status # OK => Unchanged(r)

\* C22 witness: the seeded report, of severity HIGH, had its status set by a
\* PATCH and kept its severity, and the owner can now set the severity alone.
StatusSetSeverityKept ==
    \E header \in Headers : \E x \in reports :
        /\ x.id = 1
        /\ x.status = "IN_REVIEW"
        /\ x.severity = "HIGH"
        /\ Authenticated(header)
        /\ Actor(header).id = ProgramOf(x).companyId
        /\ RoutePatchReportStatus(header, x.id, StatusBody("", "MEDIUM")).reports
               = (reports \ {x}) \cup {[x EXCEPT !.severity = "MEDIUM"]}

(***************************************************************************)
(* C29.  An authenticated ADMIN actor is refused by the role gate on every *)
(* role-gated route, whatever the target and the body: POST, PUT and       *)
(* DELETE /programs and the four /reports routes answer 403 with the       *)
(* gate's message, carry no content and leave the store as it was.         *)
(***************************************************************************)
AdminRefusedByEveryRoleGate ==
    \A header \in Headers :
        (Authenticated(header) /\ Actor(header).role = "ADMIN") =>
            \A r \in AuthenticatedRouteResults(header)
                     \cup {RoutePatchReportStatus(header, i, b) :
                               i \in ReportIds, b \in AllStatusBodies} :
                r # RouteMe(header) => r = RoleGateRefusal /\ Unchanged(r)

\* C29 witness: an ADMIN actor holds a token while a program and a report
\* exist, and is refused the deletion of the program and the report's content.
AdminRefusedOnExisting ==
    \E header \in Headers : \E p \in programs : \E x \in reports :
        /\ Authenticated(header)
        /\ Actor(header).role = "ADMIN"
        /\ RouteDeleteProgram(header, p.id).status = FORBIDDEN
        /\ RouteGetReportById(header, x.id).status = FORBIDDEN
        /\ RouteGetReportById(header, x.id).body = {}

(***************************************************************************)
(* C30.  A login with both fields present is answered the same for an      *)
(* email no actor has and for an actor's email with a wrong password: 401  *)
(* 'Invalid email or password', no token, no content, the store as it was. *)
(***************************************************************************)
LoginFailuresIndistinguishable ==
    \A email \in Emails \cup {"nobody@x"}, password \in Passwords \cup {"wrong"} :
        LET body == [email |-> email, password |-> password]
            user == {u \in users : u.email = email}
            r == RouteLogin(FALSE, body)
        IN (user = {} \/ The(user).passwordHash # hashPassword(password)) =>
               /\ r = Res(UNAUTHORIZED, "Invalid email or password")
               /\ r = RouteLogin(FALSE, [email |-> "nobody@x", password |-> "wrong"])
               /\ r.token = NoToken
               /\ Unchanged(r)

\* C30 witness: a registered actor's email with a wrong password and an
\* email of no actor are both answered 401.
KnownAndUnknownEmailRefused ==
    \E u \in users :
        /\ u.id > Cardinality(SeedUsers)
        /\ RouteLogin(FALSE, [email |-> u.email, password |-> "wrong"]).status = UNAUTHORIZED
        /\ RouteLogin(FALSE, [email |-> FreshEmail, password |-> "testtest"]).status
               = UNAUTHORIZED

(***************************************************************************)
(* C27.  A request answered 400, 401, 403, 404, 409 or 429 leaves users,   *)
(* programs and reports as they were; the store changes only with a 200,   *)
(* 201 or 204, and then by one mutation: one actor, program or report      *)
(* created, one program or report replaced by its update, or one program   *)
(* deleted together with exactly the reports on it.                        *)
(***************************************************************************)
RouteResults ==
    UNION {AuthenticatedRouteResults(header) : header \in Headers}
    \cup {RouteRegister(e, b) : e \in BOOLEAN, b \in RegisterBodies}
    \cup {RouteLogin(e, b) : e \in BOOLEAN, b \in LoginBodies}
    \cup {RoutePostProgram(TRUE, header, b) : header \in Headers, b \in CreateProgramBodies}
    \cup {RouteGetPrograms}
    \cup {RouteGetProgramById(i) : i \in ProgramIds}

OneMutation(r) ==
    \/ /\ r.programs = programs
       /\ r.reports = reports
       /\ \E u \in r.users : u \notin users /\ r.users = users \cup {u}
    \/ /\ r.users = users
       /\ r.reports = reports
       /\ \E new \in r.programs :
              \/ r.programs = programs \cup {new}
                 /\ \A p \in programs : p.id # new.id
              \/ \E old \in programs :
                     old.id = new.id /\ r.programs = (programs \ {old}) \cup {new}
    \/ /\ r.users = users
       /\ r.programs = programs
       /\ \E new \in r.reports :
              \/ r.reports = reports \cup {new}
                 /\ \A x \in reports : x.id # new.id
              \/ \E old \in reports :
                     old.id = new.id /\ r.reports = (reports \ {old}) \cup {new}
    \/ /\ r.users = users
       /\ \E old \in programs :
              /\ r.programs = programs \ {old}
              /\ r.reports = {x \in reports : x.programId # old.id}

SingleMutationAfterGuards ==
    \A r \in RouteResults :
        /\ r.status \in {BAD_REQUEST, UNAUTHORIZED, FORBIDDEN, NOT_FOUND, CONFLICT,
                         TOO_MANY_REQUESTS} => Unchanged(r)
        /\ ~Unchanged(r) => r.status \in {OK, CREATED, NO_CONTENT} /\ OneMutation(r)

\* C27 witness: the seeded program was deleted and its report went with it,
\* while the researcher who wrote the report is still an actor.
ProgramDeletedWithItsReports ==
    /\ \A p \in programs : p.id # 1
    /\ \A x \in reports : x.programId # 1
    /\ \E u \in users : u.id = 3

(***************************************************************************)
(* C23.  On PUT and DELETE /programs/:id and PATCH /reports/:id/status,    *)
(* every 403 carries the body of the role gate's 403: a rejection for a    *)
(* wrong owner reads the same as a rejection for a wrong role.             *)
(***************************************************************************)
ForbiddenBodiesIdentical ==
    \A header \in Headers :
        /\ \A i \in ProgramIds :
               /\ RouteDeleteProgram(header, i).status = FORBIDDEN =>
                      RouteDeleteProgram(header, i).error = RoleGateRefusal.error
               /\ \A b \in UpdateProgramBodies :
                      RoutePutProgram(header, i, b).status = FORBIDDEN =>
                          RoutePutProgram(header, i, b).error = RoleGateRefusal.error
        /\ \A i \in ReportIds, b \in StatusBodies :
               RoutePatchReportStatus(header, i, b).status = FORBIDDEN =>
                   RoutePatchReportStatus(header, i, b).error = RoleGateRefusal.error

(***************************************************************************)
(* C24.  For an unexpected failure the error field of the answer is a      *)
(* fixed message: the centralized responder, and the catch of every        *)
(* handler, answer any two errors without statusCode alike.                *)
(***************************************************************************)
UnexpectedFailuresGeneric ==
    \A e1 \in Unexpected, e2 \in Unexpected :
        /\ errorHandler(e1).error = errorHandler(e2).error
        /\ HandlerFailures(e1) = HandlerFailures(e2)

(***************************************************************************)
(* C25.  A persistence call that fails unexpectedly is answered 500 and    *)
(* nothing is written: in every handler, and in authenticate when the      *)
(* token verifies and the lookup of its actor fails.                       *)
(***************************************************************************)
PersistenceFailureAlways500 ==
    /\ \A e \in Unexpected : \A r \in HandlerFailures(e) :
           r.status = INTERNAL_SERVER_ERROR /\ Unchanged(r)
    /\ \A header \in Headers :
           (ExtractToken(header) # NoToken /\ verifyToken(ExtractToken(header)) # {}) =>
               authenticateLookupFails(header).status = INTERNAL_SERVER_ERROR

(***************************************************************************)
(* C26.  Under every interleaving of the requests of one client on the     *)
(* /auth routes, the requests authLimiter lets through in one window that  *)
(* end in failure, answered already or still in flight, never exceed 5.    *)
(***************************************************************************)
AdmittedFailuresWithinMax ==
    authAdmittedFailed + Cardinality(FailingInflight \ authStale) <= 5

(***************************************************************************)
(* C28.  Under every interleaving of createReport, updateProgram,          *)
(* updateReportStatus and deleteProgram: every stored report references a  *)
(* stored program; a createReport whose check passed and whose program was *)
(* deleted since is answered with an error and creates nothing; the write  *)
(* of a deleteProgram leaves no report of the program; and a write that is *)
(* applied to a program or a report is applied for the actor owning the    *)
(* program at that moment.                                                 *)
(***************************************************************************)
MutationsRespectProgramsAndOwners ==
    /\ \A x \in reports : \E p \in programs : p.id = x.programId
    /\ \A q \in pending :
           LET r == Commit(q) IN
           /\ (q.op = "createReport" /\ \A p \in programs : p.id # q.body.programId) =>
                  r.status = INTERNAL_SERVER_ERROR /\ Unchanged(r)
           /\ q.op = "deleteProgram" =>
                  /\ \A x \in r.reports : x.programId # q.id
                  /\ \A p \in r.programs : p.id # q.id
           /\ (q.op \in {"updateProgram", "deleteProgram"} /\ ~Unchanged(r)) =>
                  \E p \in programs : p.id = q.id /\ p.companyId = q.actor
           /\ (q.op = "updateReportStatus" /\ ~Unchanged(r)) =>
                  \E x \in reports : x.id = q.id /\ ProgramOf(x).companyId = q.actor
           /\ \A x \in r.reports : \E p \in r.programs : p.id = x.programId

\* C28 witness: a createReport passed its existence check, the program was
\* deleted before its write, and the write is refused.
ReportCreationOvertakenByDelete ==
    \E q \in pending :
        /\ q.op = "createReport"
        /\ \A p \in programs : p.id # q.body.programId
        /\ Commit(q).status = INTERNAL_SERVER_ERROR

====
